---- MODULE Spec2Model ----
(***************************************************************************)
(* Model of clos_mult_router.c: a three-stage Clos fabric C(N,N,N) whose   *)
(* declared state (output port -> input id) is edited by Route and Clear   *)
(* requests; every edit re-solves the whole fabric with a backtracking     *)
(* search (MRV variable order, three-pass value order, branch-and-bound on *)
(* the stability cost) and commits the solution or rolls the edit back.    *)
(***************************************************************************)
EXTENDS Integers, Sequences, FiniteSets, TLC

\* ---------------------------------------------------------------- size ----
\* init_fabric(size): g_N = size, g_total_blocks = size, g_max_ports = size^2
N == 3
TOTAL_BLOCKS == N
MAX_PORTS == N * N
g_max_demands == MAX_PORTS * TOTAL_BLOCKS

\* Sentinels of the solver
NO_SOLUTION == 999999
MRV_START == 999

Ports == 1 .. MAX_PORTS
Blocks == 0 .. (TOTAL_BLOCKS - 1)
Spines == 0 .. (N - 1)

VARIABLES
  desired_owner,        \* [Ports -> 0..MAX_PORTS], 0 = disconnected
  s1_to_s2,             \* [Blocks \X Spines -> input id], 0 = free
  s2_to_s3,             \* [Spines \X Blocks -> input id], 0 = free
  s3_port_owner,        \* [Ports -> input id]
  s3_port_spine,        \* [Ports -> spine], -1 = disconnected
  s3_port_spine_0,      \* s3_port_spine[0], the unused entry in front of the ports
  prev_s3_port_spine,   \* [Ports -> spine of the previous state], -1 = none
  have_previous_state,
  strict_stability,
  lock_spine_for,       \* [Ports \X Blocks -> spine], -1 = unlocked
  have_locks,
  lock_conflicts,       \* sequence of LockConflict records
  solver,               \* the request being served and the call stack of its search
  last_stability_cost,
  last_locked_demands,
  last_locked_outputs,
  last_op               \* outcome of the last request (what the program prints)

cfgvars == <<prev_s3_port_spine, have_previous_state, strict_stability,
             lock_spine_for, have_locks>>
fabric == <<s1_to_s2, s2_to_s3, s3_port_owner, s3_port_spine>>
vars == <<desired_owner, s1_to_s2, s2_to_s3, s3_port_owner, s3_port_spine,
          s3_port_spine_0,
          prev_s3_port_spine, have_previous_state, strict_stability,
          lock_spine_for, have_locks, lock_conflicts, last_stability_cost,
          last_locked_demands, last_locked_outputs, last_op, solver>>

\* ------------------------------------------------------------- helpers ----
get_block(port) == (port - 1) \div N

is_valid_port(p) == p >= 1 /\ p <= MAX_PORTS

LockConflict(input_id, egress_block, spine, reason) ==
  [input_id |-> input_id, egress_block |-> egress_block, spine |-> spine,
   reason |-> reason]

\* ------------------------------------------------------ demand builder ----
\* need_blocks_mask[in_id]: the egress blocks some port of which is declared
\* to in_id (first loop of build_demands)
need_blocks_mask(desired) ==
  [in_id \in Ports |->
     {get_block(p) : p \in {q \in Ports : desired[q] = in_id}}]

\* A faulty variant of DemandLess that compares egress blocks first
DemandLessByEgress(a, b) ==
  \/ a.egress_block < b.egress_block
  \/ a.egress_block = b.egress_block /\ a.input_id < b.input_id

DemandLess(a, b) ==
  \/ a.input_id < b.input_id
  \/ a.input_id = b.input_id /\ a.egress_block < b.egress_block

\* build_demands: one demand per set bit of need[in_id], inputs ascending,
\* egress blocks ascending; count = -1 on overflow
build_demands(desired) ==
  LET need == need_blocks_mask(desired)
      all == {[input_id |-> i, ingress_block |-> get_block(i), egress_block |-> e] :
                <<i, e>> \in {x \in Ports \X Blocks : x[2] \in need[x[1]]}}
      d == Cardinality(all)
  IN  IF d > g_max_demands
        THEN [count |-> -1, demands |-> <<>>, need |-> need]
        ELSE [count |-> d,
              demands |-> [k \in 0 .. (d - 1) |->
                             CHOOSE x \in all :
                               Cardinality({y \in all : DemandLess(y, x)}) = k],
              need |-> need]

\* compute_lock_counts
compute_lock_counts(need, desired) ==
  IF ~have_locks
    THEN [demands |-> 0, outputs |-> 0]
    ELSE [demands |-> Cardinality({x \in Ports \X Blocks :
                         lock_spine_for[x] >= 0 /\ x[2] \in need[x[1]]}),
          outputs |-> Cardinality({p \in Ports :
                         desired[p] > 0 /\
                         lock_spine_for[<<desired[p], get_block(p)>>] >= 0})]

\* ---------------------------------------------------------- lock check ----
\* The loop of validate_locks_against_demands from position k on, where
\* k enumerates (in_id, e) in the order of the two nested for loops.
\* st = [locked_s2, locked_s1, ok, conflicts]
RECURSIVE validate_locks_loop(_, _, _)
validate_locks_loop(need, k, st) ==
  IF k >= MAX_PORTS * TOTAL_BLOCKS THEN st
  ELSE
    LET in_id == (k \div TOTAL_BLOCKS) + 1
        e == k % TOTAL_BLOCKS
        s == lock_spine_for[<<in_id, e>>]
    IN  IF s < 0 \/ e \notin need[in_id]
          THEN validate_locks_loop(need, k + 1, st)
          ELSE
            LET ingress == get_block(in_id)
                s2_owner == st.locked_s2[<<s, e>>]
                bad2 == s2_owner # 0 /\ s2_owner # in_id
                st2 == IF bad2
                         THEN [st EXCEPT !.ok = FALSE,
                                 !.conflicts = Append(@, LockConflict(in_id, e, s, "CONFLICT"))]
                         ELSE [st EXCEPT !.locked_s2[<<s, e>>] = in_id]
                s1_owner == st2.locked_s1[<<ingress, s>>]
                bad1 == s1_owner # 0 /\ s1_owner # in_id
                st3 == IF bad1
                         THEN [st2 EXCEPT !.ok = FALSE,
                                 !.conflicts = Append(@, LockConflict(in_id, e, s, "CONFLICT"))]
                         ELSE [st2 EXCEPT !.locked_s1[<<ingress, s>>] = in_id]
            IN  validate_locks_loop(need, k + 1, st3)

\* validate_locks_against_demands: [ok, conflicts]; conflicts is the
\* lock_conflicts list afterwards (entries are appended, never removed)
validate_locks_against_demands(need, conflicts) ==
  IF ~have_locks
    THEN [ok |-> Len(conflicts) = 0, conflicts |-> conflicts]
    ELSE
      LET st == validate_locks_loop(need, 0,
                  [locked_s2 |-> [x \in Spines \X Blocks |-> 0],
                   locked_s1 |-> [x \in Blocks \X Spines |-> 0],
                   ok |-> TRUE,
                   conflicts |-> conflicts])
      IN  [ok |-> st.ok /\ Len(st.conflicts) = 0, conflicts |-> st.conflicts]

\* ------------------------------------------------------ capacity check ----
\* A faulty variant of quick_capacity_check that takes a block with N inputs
\* for a block over capacity
quick_capacity_check_below(need) ==
  /\ \A e \in Blocks :
       Cardinality({in_id \in Ports : e \in need[in_id]}) < N
  /\ \A i \in Blocks :
       Cardinality({in_id \in Ports : need[in_id] # {} /\ get_block(in_id) = i}) < N

quick_capacity_check(need) ==
  /\ \A e \in Blocks :
       Cardinality({in_id \in Ports : e \in need[in_id]}) <= N
  /\ \A i \in Blocks :
       Cardinality({in_id \in Ports : need[in_id] # {} /\ get_block(in_id) = i}) <= N

\* -------------------------------------------------- backtracking solver ----
\* SolverCtx is a record: demands, num_demands, tmp_s2, tmp_s1_owner,
\* used_spines_mask, assignment, best_assignment, prev_spine_for,
\* stability_cost, best_stability_cost.

\* The hard constraints on giving spine s to demand d: both trunks are free
\* or already owned by the demand's input
trunk_free(ctx, d, s) ==
  /\ ~(ctx.tmp_s2[<<s, d.egress_block>>] # 0 /\
       ctx.tmp_s2[<<s, d.egress_block>>] # d.input_id)
  /\ ~(ctx.tmp_s1_owner[<<d.ingress_block, s>>] # 0 /\
       ctx.tmp_s1_owner[<<d.ingress_block, s>>] # d.input_id)

\* A faulty variant of locked_spine_of that never reports a lock
locked_spine_ignored(d) == -1

locked_spine_of(d) ==
  IF have_locks THEN lock_spine_for[<<d.input_id, d.egress_block>>] ELSE -1

domain_size(ctx, d) ==
  IF locked_spine_of(d) >= 0
    THEN (IF trunk_free(ctx, d, locked_spine_of(d)) THEN 1 ELSE 0)
    ELSE Cardinality({s \in Spines : trunk_free(ctx, d, s)})

\* mrv_scan keeping the last of the demands with the smallest domain
RECURSIVE mrv_scan_last_tie(_, _, _, _)
mrv_scan_last_tie(ctx, i, best_idx, best_dom) ==
  IF i >= ctx.num_demands THEN [empty |-> FALSE, best_idx |-> best_idx]
  ELSE
    LET dom == domain_size(ctx, ctx.demands[i])
    IN  IF dom = 0 THEN [empty |-> TRUE, best_idx |-> best_idx]
        ELSE IF dom <= best_dom
          THEN (IF dom = 1
                  THEN [empty |-> FALSE, best_idx |-> i]
                  ELSE mrv_scan_last_tie(ctx, i + 1, i, dom))
          ELSE mrv_scan_last_tie(ctx, i + 1, best_idx, best_dom)

\* The MRV scan of backtrack from position i on: [empty, best_idx].
\* empty: a demand with an empty domain was met (the call returns false);
\* the scan stops at the first demand whose domain is 1.
RECURSIVE mrv_scan(_, _, _, _)
mrv_scan(ctx, i, best_idx, best_dom) ==
  IF i >= ctx.num_demands THEN [empty |-> FALSE, best_idx |-> best_idx]
  ELSE
    LET dom == domain_size(ctx, ctx.demands[i])
    IN  IF dom = 0 THEN [empty |-> TRUE, best_idx |-> best_idx]
        ELSE IF dom < best_dom
          THEN (IF dom = 1
                  THEN [empty |-> FALSE, best_idx |-> i]
                  ELSE mrv_scan(ctx, i + 1, i, dom))
          ELSE mrv_scan(ctx, i + 1, best_idx, best_dom)

\* Swap the chosen demand into position depth, assignment kept aligned
swap_chosen(ctx, depth, best_idx) ==
  IF best_idx = depth THEN ctx
  ELSE [ctx EXCEPT
          !.demands = [@ EXCEPT ![depth] = ctx.demands[best_idx],
                                ![best_idx] = ctx.demands[depth]],
          !.assignment = [@ EXCEPT ![depth] = ctx.assignment[best_idx],
                                   ![best_idx] = ctx.assignment[depth]]]

\* Provisional commit of spine s for demand d at position depth
commit_spine(ctx, depth, d, s, prev_spine) ==
  [ctx EXCEPT
     !.tmp_s2[<<s, d.egress_block>>] = d.input_id,
     !.tmp_s1_owner[<<d.ingress_block, s>>] = d.input_id,
     !.assignment[depth] = s,
     !.used_spines_mask[d.input_id] = @ \cup {s},
     !.stability_cost = IF prev_spine >= 0 /\ s # prev_spine THEN @ + 1 ELSE @]

\* A faulty variant of undo_spine that clears the spine's bit in the used
\* mask instead of writing the saved mask back
undo_spine_clear_bit(after, before, d, s) ==
  [after EXCEPT
     !.tmp_s2[<<s, d.egress_block>>] = before.tmp_s2[<<s, d.egress_block>>],
     !.tmp_s1_owner[<<d.ingress_block, s>>] = before.tmp_s1_owner[<<d.ingress_block, s>>],
     !.used_spines_mask[d.input_id] = @ \ {s},
     !.stability_cost = before.stability_cost]

\* Undo of that commit: the four saved values are written back
undo_spine(after, before, d, s) ==
  [after EXCEPT
     !.tmp_s2[<<s, d.egress_block>>] = before.tmp_s2[<<s, d.egress_block>>],
     !.tmp_s1_owner[<<d.ingress_block, s>>] = before.tmp_s1_owner[<<d.ingress_block, s>>],
     !.used_spines_mask[d.input_id] = before.used_spines_mask[d.input_id],
     !.stability_cost = before.stability_cost]

\* Recording of a complete assignment (depth = num_demands).
\* recorded_demands is not in the code: it keeps the order demands[] had when
\* best_assignment was copied, so that the recorded solution can be read
\* back as a map from demands to spines
record_best(ctx) ==
  IF ctx.stability_cost < ctx.best_stability_cost
    THEN [ctx EXCEPT !.best_stability_cost = ctx.stability_cost,
                     !.best_assignment = ctx.assignment,
                     !.recorded_demands = ctx.demands]
    ELSE ctx

RECURSIVE backtrack(_, _)
RECURSIVE try_spines(_, _, _, _)

\* try_spines with each pass running from the last spine to the first
RECURSIVE try_spines_descending(_, _, _, _)
try_spines_descending(ctx, depth, d, k) ==
  IF k >= 3 * N THEN [ctx |-> ctx, ret |-> FALSE]
  ELSE
    LET pass == k \div N
        s == (N - 1) - (k % N)
        prev_spine == ctx.prev_spine_for[<<d.input_id, d.egress_block>>]
        is_prev == prev_spine >= 0 /\ s = prev_spine
        already_used == s \in ctx.used_spines_mask[d.input_id]
        skip == \/ pass = 0 /\ ~is_prev
                \/ pass = 1 /\ (is_prev \/ ~already_used)
                \/ pass = 2 /\ (is_prev \/ already_used)
                \/ ~trunk_free(ctx, d, s)
    IN  IF skip THEN try_spines_descending(ctx, depth, d, k + 1)
        ELSE
          LET r == backtrack(commit_spine(ctx, depth, d, s, prev_spine), depth + 1)
          IN  IF r.ret /\ r.ctx.best_stability_cost = 0
                THEN [ctx |-> r.ctx, ret |-> TRUE]
                ELSE try_spines_descending(undo_spine(r.ctx, ctx, d, s), depth, d, k + 1)

\* The value loops of backtrack: k enumerates (pass, s) as the two nested
\* for loops do, pass = k \div N, s = k % N.  Result [ctx, ret].
try_spines(ctx, depth, d, k) ==
  IF k >= 3 * N THEN [ctx |-> ctx, ret |-> FALSE]
  ELSE
    LET pass == k \div N
        s == k % N
        prev_spine == ctx.prev_spine_for[<<d.input_id, d.egress_block>>]
        is_prev == prev_spine >= 0 /\ s = prev_spine
        already_used == s \in ctx.used_spines_mask[d.input_id]
        skip == \/ pass = 0 /\ ~is_prev
                \/ pass = 1 /\ (is_prev \/ ~already_used)
                \/ pass = 2 /\ (is_prev \/ already_used)
                \/ ~trunk_free(ctx, d, s)
    IN  IF skip THEN try_spines(ctx, depth, d, k + 1)
        ELSE
          LET r == backtrack(commit_spine(ctx, depth, d, s, prev_spine), depth + 1)
          IN  IF r.ret /\ r.ctx.best_stability_cost = 0
                THEN [ctx |-> r.ctx, ret |-> TRUE]
                ELSE try_spines(undo_spine(r.ctx, ctx, d, s), depth, d, k + 1)

\* backtrack(ctx, depth): [ctx, ret]; ret = perfect stability was reached
backtrack(ctx, depth) ==
  IF ctx.stability_cost >= ctx.best_stability_cost
    THEN [ctx |-> ctx, ret |-> FALSE]
  ELSE IF depth = ctx.num_demands
    THEN LET c == record_best(ctx)
         IN  [ctx |-> c, ret |-> c.best_stability_cost = 0]
  ELSE
    LET m == mrv_scan(ctx, depth, -1, MRV_START)
    IN  IF m.empty THEN [ctx |-> ctx, ret |-> FALSE]
        ELSE
          LET c1 == swap_chosen(ctx, depth, m.best_idx)
              d == c1.demands[depth]
              locked_spine == locked_spine_of(d)
              prev_spine == c1.prev_spine_for[<<d.input_id, d.egress_block>>]
          IN  IF locked_spine >= 0
                THEN
                  IF ~trunk_free(c1, d, locked_spine)
                    THEN [ctx |-> c1, ret |-> FALSE]
                    ELSE
                      LET r == backtrack(commit_spine(c1, depth, d, locked_spine, prev_spine),
                                         depth + 1)
                      IN  IF r.ret /\ r.ctx.best_stability_cost = 0
                            THEN [ctx |-> r.ctx, ret |-> TRUE]
                            ELSE [ctx |-> undo_spine(r.ctx, c1, d, locked_spine),
                                  ret |-> FALSE]
                ELSE try_spines(c1, depth, d, 0)

\* A faulty variant of prev_spine_map that keeps the previous spine of the
\* first port of the block instead of the last
prev_spine_map_first(desired) ==
  [x \in (0 .. MAX_PORTS) \X Blocks |->
     LET ps == {p \in Ports : /\ have_previous_state
                              /\ desired[p] = x[1] /\ desired[p] > 0
                              /\ prev_s3_port_spine[p] >= 0
                              /\ get_block(p) = x[2]}
     IN  IF ps = {} THEN -1
         ELSE prev_s3_port_spine[CHOOSE p \in ps : \A q \in ps : p <= q]]

\* prev_spine_for[in_id][e]: the previous spine of the last port of block e
\* declared to in_id that had one
prev_spine_map(desired) ==
  [x \in (0 .. MAX_PORTS) \X Blocks |->
     LET ps == {p \in Ports : /\ have_previous_state
                              /\ desired[p] = x[1] /\ desired[p] > 0
                              /\ prev_s3_port_spine[p] >= 0
                              /\ get_block(p) = x[2]}
     IN  IF ps = {} THEN -1
         ELSE prev_s3_port_spine[CHOOSE p \in ps : \A q \in ps : q <= p]]

\* The context solve_and_build_solution hands to backtrack(&ctx, 0)
initial_ctx(desired, demands, num_demands) ==
  [demands |-> demands,
   num_demands |-> num_demands,
   tmp_s2 |-> [x \in Spines \X Blocks |-> 0],
   tmp_s1_owner |-> [x \in Blocks \X Spines |-> 0],
   used_spines_mask |-> [i \in 0 .. MAX_PORTS |-> {}],
   assignment |-> [k \in 0 .. (num_demands - 1) |-> 0],
   best_assignment |-> [k \in 0 .. (num_demands - 1) |-> 0],
   recorded_demands |-> demands,
   prev_spine_for |-> prev_spine_map(desired),
   stability_cost |-> 0,
   best_stability_cost |-> NO_SOLUTION]

\* ------------------------------------------------- solve and materialise ----
\* compute_fabric_stats, total_branches: over the inputs, the number of
\* spines that carry a connected port of the input
total_branches(owner, spine) ==
  LET spines_per_input(in_id) ==
        {s \in Spines : \E p \in Ports : owner[p] = in_id /\ spine[p] = s}
      RECURSIVE Sum(_)
      Sum(in_id) ==
        IF in_id > MAX_PORTS THEN 0
        ELSE Cardinality(spines_per_input(in_id)) + Sum(in_id + 1)
  IN  Sum(1)

\* repack_fabric_and_commit, last_rerouted_outputs: the connected ports whose
\* spine is not their previous one
rerouted_outputs(spine) ==
  IF have_previous_state
    THEN Cardinality({p \in Ports : /\ prev_s3_port_spine[p] >= 0
                                    /\ spine[p] >= 0
                                    /\ spine[p] # prev_s3_port_spine[p]})
    ELSE 0

\* The mutable globals a request reads and writes, threaded through the
\* calls as one record
Globals ==
  [desired_owner |-> desired_owner,
   s1_to_s2 |-> s1_to_s2,
   s2_to_s3 |-> s2_to_s3,
   s3_port_owner |-> s3_port_owner,
   s3_port_spine |-> s3_port_spine,
   lock_conflicts |-> lock_conflicts,
   last_stability_cost |-> last_stability_cost,
   last_locked_demands |-> last_locked_demands,
   last_locked_outputs |-> last_locked_outputs]

EmptySolution ==
  [s1 |-> [x \in Blocks \X Spines |-> 0],
   s2 |-> [x \in Spines \X Blocks |-> 0],
   s3_owner |-> [p \in Ports |-> 0],
   s3_spine |-> [p \in Ports |-> -1],
   spine_for |-> [x \in (0 .. MAX_PORTS) \X Blocks |-> -1]]

\* "Apply each (input, egress) demand to trunks": the loop from position i on
RECURSIVE apply_demands(_, _, _, _)
apply_demands(sol, demands, best_assignment, i) ==
  IF i >= Cardinality(DOMAIN demands) THEN sol
  ELSE
    LET d == demands[i]
        s == best_assignment[i]
    IN  apply_demands(
          [sol EXCEPT !.s2[<<s, d.egress_block>>] = d.input_id,
                      !.s1[<<d.ingress_block, s>>] = d.input_id,
                      !.spine_for[<<d.input_id, d.egress_block>>] = s],
          demands, best_assignment, i + 1)

\* "Apply Stage3 selections exactly as desired_owner"; missing = a declared
\* port whose (input, egress block) got no spine
apply_stage3(sol, desired) ==
  [missing |-> \E p \in Ports :
                 desired[p] # 0 /\ sol.spine_for[<<desired[p], get_block(p)>>] < 0,
   sol |-> [sol EXCEPT
              !.s3_owner = [p \in Ports |-> desired[p]],
              !.s3_spine = [p \in Ports |->
                              IF desired[p] = 0 THEN -1
                              ELSE sol.spine_for[<<desired[p], get_block(p)>>]]]]

\* A faulty variant of solve_outcome without the strict-stability check
solve_outcome_lenient(g, bd, lc, vl, ctx) ==
  LET g1 == [g EXCEPT !.lock_conflicts = vl.conflicts,
                      !.last_locked_demands = lc.demands,
                      !.last_locked_outputs = lc.outputs]
  IN  IF bd.count < 0
        THEN [ret |-> FALSE, kind |-> "INTERNAL", g |-> g, sol |-> EmptySolution]
      ELSE IF ~vl.ok
        THEN [ret |-> FALSE, kind |-> "LOCK", g |-> g1, sol |-> EmptySolution]
      ELSE IF bd.count = 0
        THEN [ret |-> TRUE, kind |-> "OK",
              g |-> [g1 EXCEPT !.last_stability_cost = 0], sol |-> EmptySolution]
      ELSE IF ~quick_capacity_check(bd.need)
        THEN [ret |-> FALSE, kind |-> "CAPACITY", g |-> g1, sol |-> EmptySolution]
      ELSE IF ctx.best_stability_cost = NO_SOLUTION
        THEN [ret |-> FALSE, kind |-> "SEARCH", g |-> g1, sol |-> EmptySolution]
      ELSE
        LET g2 == [g1 EXCEPT !.last_stability_cost = ctx.best_stability_cost]
            st3 == apply_stage3(
                     apply_demands(EmptySolution, ctx.demands, ctx.best_assignment, 0),
                     g.desired_owner)
        IN  IF st3.missing
              THEN [ret |-> FALSE, kind |-> "INTERNAL", g |-> g2, sol |-> EmptySolution]
            ELSE [ret |-> TRUE, kind |-> "OK", g |-> g2, sol |-> st3.sol]

\* The body of solve_and_build_solution once its demands (bd), lock counts
\* (lc), lock check (vl) and search (ctx, the context backtrack leaves) are
\* at hand; the search is only run when the checks before it pass
solve_outcome(g, bd, lc, vl, ctx) ==
  LET g1 == [g EXCEPT !.lock_conflicts = vl.conflicts,
                      !.last_locked_demands = lc.demands,
                      !.last_locked_outputs = lc.outputs]
  IN  IF bd.count < 0
        THEN [ret |-> FALSE, kind |-> "INTERNAL", g |-> g, sol |-> EmptySolution]
      ELSE IF ~vl.ok
        THEN [ret |-> FALSE, kind |-> "LOCK", g |-> g1, sol |-> EmptySolution]
      ELSE IF bd.count = 0
        THEN [ret |-> TRUE, kind |-> "OK",
              g |-> [g1 EXCEPT !.last_stability_cost = 0], sol |-> EmptySolution]
      ELSE IF ~quick_capacity_check(bd.need)
        THEN [ret |-> FALSE, kind |-> "CAPACITY", g |-> g1, sol |-> EmptySolution]
      ELSE IF ctx.best_stability_cost = NO_SOLUTION
        THEN [ret |-> FALSE, kind |-> "SEARCH", g |-> g1, sol |-> EmptySolution]
      ELSE
        LET g2 == [g1 EXCEPT !.last_stability_cost = ctx.best_stability_cost]
            st3 == apply_stage3(
                     apply_demands(EmptySolution, ctx.demands, ctx.best_assignment, 0),
                     g.desired_owner)
        IN  IF strict_stability /\ ctx.best_stability_cost > 0
              THEN [ret |-> FALSE, kind |-> "STRICT", g |-> g2, sol |-> EmptySolution]
            ELSE IF st3.missing
              THEN [ret |-> FALSE, kind |-> "INTERNAL", g |-> g2, sol |-> EmptySolution]
            ELSE [ret |-> TRUE, kind |-> "OK", g |-> g2, sol |-> st3.sol]

\* The demands of g.desired_owner, solved
solve_demands(g, bd) ==
  solve_outcome(g, bd,
    compute_lock_counts(bd.need, g.desired_owner),
    validate_locks_against_demands(bd.need, g.lock_conflicts),
    backtrack(initial_ctx(g.desired_owner, bd.demands, bd.count), 0).ctx)

\* solve_and_build_solution: [ret, kind, g, sol]; kind names the failure
\* message printed (LOCK, CAPACITY, SEARCH, STRICT, INTERNAL) or OK
solve_and_build_solution(g) == solve_demands(g, build_demands(g.desired_owner))

\* A faulty variant of commit_solution that keeps the first-stage trunks the
\* solution does not use
commit_solution_over_s1(g, sol) ==
  [g EXCEPT !.s1_to_s2 = [x \in Blocks \X Spines |->
                            IF sol.s1[x] # 0 THEN sol.s1[x] ELSE g.s1_to_s2[x]],
            !.s2_to_s3 = sol.s2,
            !.s3_port_owner = sol.s3_owner,
            !.s3_port_spine = sol.s3_spine]

commit_solution(g, sol) ==
  [g EXCEPT !.s1_to_s2 = sol.s1,
            !.s2_to_s3 = sol.s2,
            !.s3_port_owner = sol.s3_owner,
            !.s3_port_spine = sol.s3_spine]

\* A faulty variant of validate_fabric that accepts every fabric
validate_fabric_skipped(g) == TRUE

\* ---------------------------------------------------- fabric validation ----
validate_fabric(g) ==
  /\ \A x \in Spines \X Blocks :
       LET in_id == g.s2_to_s3[x]
       IN  in_id # 0 =>
             /\ is_valid_port(in_id)
             /\ g.s1_to_s2[<<get_block(in_id), x[1]>>] = in_id
  /\ \A p \in Ports :
       LET owner == g.s3_port_owner[p]
           spine == g.s3_port_spine[p]
       IN  IF owner = 0 THEN spine = -1
           ELSE /\ is_valid_port(owner)
                /\ spine >= 0 /\ spine < N
                /\ g.s2_to_s3[<<spine, get_block(p)>>] = owner
  /\ \A p \in Ports : g.desired_owner[p] = g.s3_port_owner[p]

\* What repack_fabric_and_commit does with the solver's result r: the
\* solution is committed before it is validated
repack_outcome(r, committed) ==
  IF ~r.ret THEN [ret |-> FALSE, kind |-> r.kind, g |-> r.g]
  ELSE IF ~validate_fabric(committed)
    THEN [ret |-> FALSE, kind |-> "VALIDATION", g |-> committed]
  ELSE [ret |-> TRUE, kind |-> "OK", g |-> committed]

commit_solved(r) == repack_outcome(r, commit_solution(r.g, r.sol))

\* repack_fabric_and_commit: [ret, kind, g]
repack_fabric_and_commit(g) == commit_solved(solve_and_build_solution(g))

\* ---------------------------------------------------- command application ----
\* A faulty variant of stage_edits that rejects a target it has already
\* staged
RECURSIVE stage_edits_no_repeat(_, _, _, _, _)
stage_edits_no_repeat(desired, input_id, targets, i, edits) ==
  IF i > Len(targets) THEN [ok |-> TRUE, edits |-> edits]
  ELSE
    LET p == targets[i]
    IN  IF ~is_valid_port(p) THEN [ok |-> FALSE, edits |-> edits]
        ELSE IF desired[p] # 0 /\ desired[p] # input_id
          THEN [ok |-> FALSE, edits |-> edits]
        ELSE IF \E k \in 1 .. Len(edits) : edits[k].port = p
          THEN [ok |-> FALSE, edits |-> edits]
        ELSE IF desired[p] # input_id
          THEN stage_edits_no_repeat(desired, input_id, targets, i + 1,
                 Append(edits, [port |-> p, prev_owner |-> desired[p]]))
        ELSE stage_edits_no_repeat(desired, input_id, targets, i + 1, edits)

\* A faulty variant of stage_edits that stages a port declared to another
\* input like a free one
RECURSIVE stage_edits_overwrite(_, _, _, _, _)
stage_edits_overwrite(desired, input_id, targets, i, edits) ==
  IF i > Len(targets) THEN [ok |-> TRUE, edits |-> edits]
  ELSE
    LET p == targets[i]
    IN  IF ~is_valid_port(p) THEN [ok |-> FALSE, edits |-> edits]
        ELSE IF desired[p] # input_id
          THEN stage_edits_overwrite(desired, input_id, targets, i + 1,
                 Append(edits, [port |-> p, prev_owner |-> desired[p]]))
        ELSE stage_edits_overwrite(desired, input_id, targets, i + 1, edits)

\* "Validate and stage edits": the loop of apply_route_request from target
\* i on (targets is 1-based here); ok = FALSE when a target is rejected
RECURSIVE stage_edits(_, _, _, _, _)
stage_edits(desired, input_id, targets, i, edits) ==
  IF i > Len(targets) THEN [ok |-> TRUE, edits |-> edits]
  ELSE
    LET p == targets[i]
    IN  IF ~is_valid_port(p) THEN [ok |-> FALSE, edits |-> edits]
        ELSE IF desired[p] # 0 /\ desired[p] # input_id
          THEN [ok |-> FALSE, edits |-> edits]
        ELSE IF desired[p] # input_id
          THEN stage_edits(desired, input_id, targets, i + 1,
                           Append(edits, [port |-> p, prev_owner |-> desired[p]]))
        ELSE stage_edits(desired, input_id, targets, i + 1, edits)

\* "Apply edits": desired_owner[edits[i].port] = owner, in order
RECURSIVE apply_edits(_, _, _, _)
apply_edits(desired, edits, owner, i) ==
  IF i > Len(edits) THEN desired
  ELSE apply_edits([desired EXCEPT ![edits[i].port] = owner], edits, owner, i + 1)

\* A faulty variant of rollback_edits that leaves the edits in place
rollback_edits_skipped(desired, edits, i) == desired

\* "Rollback": desired_owner[edits[i].port] = edits[i].prev_owner, in order
RECURSIVE rollback_edits(_, _, _)
rollback_edits(desired, edits, i) ==
  IF i > Len(edits) THEN desired
  ELSE rollback_edits([desired EXCEPT ![edits[i].port] = edits[i].prev_owner],
                      edits, i + 1)

\* A faulty variant of rollback_outcome that rolls the declared state back
\* but keeps the fabric the failed repack left
rollback_without_repack(attempted, r1, r2) ==
  [ret |-> FALSE, primary |-> r1.kind, secondary |-> r2.kind,
   attempted |-> attempted,
   g |-> [r1.g EXCEPT !.desired_owner = r2.g.desired_owner]]

\* The outcome of a request whose repack r1 failed and whose repack of the
\* rolled-back state gave r2
rollback_outcome(attempted, r1, r2) ==
  [ret |-> FALSE, primary |-> r1.kind, secondary |-> r2.kind,
   attempted |-> attempted, g |-> r2.g]

\* The outcome of a request after its repack r1; on failure the edits are
\* rolled back and the fabric is repacked again
repack_result(g, edits, r1) ==
  IF r1.ret
    THEN [ret |-> TRUE, primary |-> r1.kind, secondary |-> "NONE",
          attempted |-> g.desired_owner, g |-> r1.g]
    ELSE rollback_outcome(g.desired_owner, r1,
           repack_fabric_and_commit(
             [r1.g EXCEPT !.desired_owner = rollback_edits(@, edits, 1)]))

\* Repack, and on failure roll the edits back and repack again:
\* [ret, primary, secondary, attempted, g]; attempted is desired_owner as
\* the edits left it, primary and secondary the outcomes of the two repacks
repack_or_rollback(g, edits) == repack_result(g, edits, repack_fabric_and_commit(g))

\* A request that returns before any repack
no_repack(g, ret) ==
  [ret |-> ret, primary |-> "NONE", secondary |-> "NONE",
   attempted |-> g.desired_owner, g |-> g]

\* A faulty variant of apply_route_request that applies the edits staged so
\* far before it rejects the request
apply_route_request_partial(g, input_id, targets) ==
  LET staged == stage_edits(g.desired_owner, input_id, targets, 1, <<>>)
  IN  IF ~is_valid_port(input_id) \/ Len(targets) <= 0 THEN no_repack(g, FALSE)
      ELSE IF ~staged.ok
        THEN no_repack(
               [g EXCEPT !.desired_owner = apply_edits(@, staged.edits, input_id, 1)],
               FALSE)
      ELSE repack_or_rollback(
             [g EXCEPT !.desired_owner = apply_edits(@, staged.edits, input_id, 1)],
             staged.edits)

apply_route_request(g, input_id, targets) ==
  LET staged == stage_edits(g.desired_owner, input_id, targets, 1, <<>>)
  IN  IF ~is_valid_port(input_id) \/ Len(targets) <= 0 \/ ~staged.ok
        THEN no_repack(g, FALSE)
        ELSE repack_or_rollback(
               [g EXCEPT !.desired_owner = apply_edits(@, staged.edits, input_id, 1)],
               staged.edits)

\* The ports apply_clear_request stages: every port declared to input_id,
\* ascending
RECURSIVE clear_edits(_, _, _, _)
clear_edits(desired, input_id, p, edits) ==
  IF p > MAX_PORTS THEN edits
  ELSE IF desired[p] = input_id
    THEN clear_edits(desired, input_id, p + 1,
                     Append(edits, [port |-> p, prev_owner |-> input_id]))
  ELSE clear_edits(desired, input_id, p + 1, edits)

apply_clear_request(g, input_id) ==
  LET edits == clear_edits(g.desired_owner, input_id, 1, <<>>)
  IN  IF ~is_valid_port(input_id) THEN no_repack(g, FALSE)
      ELSE IF Len(edits) = 0 THEN no_repack(g, TRUE)
      ELSE repack_or_rollback(
             [g EXCEPT !.desired_owner = apply_edits(@, edits, 0, 1)], edits)

\* ------------------------------------------------------------ lock loading ----
\* load_locks over the tuples of a locks file, in file order:
\* st = [lock_spine_for, have_locks, lock_conflicts]
RECURSIVE load_locks_loop(_, _, _)
load_locks_loop(file, i, st) ==
  IF i > Len(file) THEN st
  ELSE
    LET t == file[i]
    IN  IF \/ ~is_valid_port(t.input)
           \/ t.egressBlock < 0 \/ t.egressBlock >= TOTAL_BLOCKS
           \/ t.spine < 0 \/ t.spine >= N
          THEN load_locks_loop(file, i + 1,
                 [st EXCEPT !.lock_conflicts =
                    Append(@, LockConflict(t.input, t.egressBlock, t.spine, "RANGE"))])
        ELSE IF /\ st.lock_spine_for[<<t.input, t.egressBlock>>] >= 0
                /\ st.lock_spine_for[<<t.input, t.egressBlock>>] # t.spine
          THEN load_locks_loop(file, i + 1,
                 [st EXCEPT !.lock_conflicts =
                    Append(@, LockConflict(t.input, t.egressBlock, t.spine, "CONFLICT"))])
        ELSE load_locks_loop(file, i + 1,
               [st EXCEPT !.lock_spine_for[<<t.input, t.egressBlock>>] = t.spine,
                          !.have_locks = TRUE])

load_locks(file) ==
  load_locks_loop(file, 1,
    [lock_spine_for |-> [x \in Ports \X Blocks |-> -1],
     have_locks |-> FALSE,
     lock_conflicts |-> <<>>])

\* ------------------------------------------------------------------ bounds ----
\* Longest locks file read at start-up
MaxLocks == 2
\* Cap on the length of the lock_conflicts list (it only ever grows)
MaxConflicts == 2

\* ------------------------------------------------------------- environment ----
\* A previous-state file: s3_port_spine with the listed ports routed on
\* spine v and every other port unrouted
PrevFile(ports, v) == [p \in Ports |-> IF p \in ports THEN v ELSE -1]

\* The previous-state files a run may be started with (given = FALSE: no
\* --previous-state argument)
PrevFiles ==
  { [given |-> FALSE, spine |-> PrevFile({}, -1)],
    [given |-> TRUE, spine |-> PrevFile({4, 8}, 1)] }

LockTuple(i, e, s) == [input |-> i, egressBlock |-> e, spine |-> s]

\* The entries of the locks file: an input of ingress block 0 and one of
\* ingress block 1 both pinned to spine 0 towards egress block 1, then a
\* second input of ingress block 0 pinned to spine 1 towards egress block 0
LocksFile == << LockTuple(1, 1, 0), LockTuple(4, 1, 0), LockTuple(2, 0, 1) >>

\* The locks files a run may be started with. The files that load without
\* conflict: the first n entries of LocksFile, n up to MaxLocks (the empty
\* file: no --locks argument)
GoodLockFiles == { SubSeq(LocksFile, 1, n) : n \in 0 .. MaxLocks }

\* Locks files whose loading records a conflict: one entry with an input id
\* out of range (RANGE), and two entries pinning one (input, egress block)
\* to different spines (CONFLICT)
BadLockFiles ==
  { << LockTuple(0, 0, 0) >>,
    << LockTuple(1, 1, 0), LockTuple(1, 1, 1) >> }

LockFiles == GoodLockFiles \cup BadLockFiles

\* The command lines a run may be started with: no option, --previous-state
\* alone, and --previous-state with either --strict-stability or --locks
CommandLines ==
  [prev : PrevFiles, strict : BOOLEAN, locks : LockFiles]

\* The requests of the command stream: input ids in and out of range, and
\* target lists that are empty, in range, and partly out of range
InputIds == {0, 1, 2, 4}

TargetLists == { <<>>, <<1, 4>>, <<5, 8>>, <<3, 6>>, <<7, MAX_PORTS + 1>> }

\* What the request "Route input_id to targets" is by the interface: invalid
\* when the input or a target is out of range, the list is empty, or a
\* target is declared to another input
InvalidRoute(desired, input_id, targets) ==
  \/ input_id < 1 \/ input_id > MAX_PORTS
  \/ targets = <<>>
  \/ \E k \in 1 .. Len(targets) :
       \/ targets[k] < 1 \/ targets[k] > MAX_PORTS
       \/ /\ targets[k] \in Ports
          /\ desired[targets[k]] \notin {0, input_id}

\* ------------------------------------------------------------ state machine ----
\* No request is being served
IdleSolver == [pc |-> "idle"]

\* init_fabric, then load_locks and load_previous_state as main does, for a
\* command line of the set lines
StartUp(lines) ==
  /\ desired_owner = [p \in Ports |-> 0]
  /\ s1_to_s2 = [x \in Blocks \X Spines |-> 0]
  /\ s2_to_s3 = [x \in Spines \X Blocks |-> 0]
  /\ s3_port_owner = [p \in Ports |-> 0]
  /\ s3_port_spine = [p \in Ports |-> -1]
  /\ s3_port_spine_0 = -1
  /\ \E c \in lines :
       /\ prev_s3_port_spine = c.prev.spine
       /\ have_previous_state = c.prev.given
       /\ strict_stability = c.strict
       /\ lock_spine_for = load_locks(c.locks).lock_spine_for
       /\ have_locks = load_locks(c.locks).have_locks
       /\ lock_conflicts = load_locks(c.locks).lock_conflicts
  /\ last_stability_cost = 0
  /\ last_locked_demands = 0
  /\ last_locked_outputs = 0
  /\ last_op = [op |-> "none", input_id |-> 0, invalid |-> FALSE,
                attempted |-> [p \in Ports |-> 0], ret |-> TRUE,
                primary |-> "NONE", secondary |-> "NONE"]
  /\ solver = IdleSolver

Init == StartUp(CommandLines)

\* What entry 0 of a solution's s3_spine buffer may hold: the buffer comes
\* from malloc and only entries 1..MAX_PORTS are written, so entry 0 is
\* whatever the heap held (two of the values, -1 being what init_fabric
\* wrote into the live array)
UninitializedInts == {-1, 0}

\* A request ran commit_solution: one of its solves produced a solution
Committed(r) ==
  \/ r.primary \in {"OK", "VALIDATION"}
  \/ r.secondary \in {"OK", "VALIDATION"}

\* s3_port_spine[0] after a request: commit_solution copies entry 0 of the
\* solution's buffer over it
spine_0_after(r) ==
  IF Committed(r) THEN UninitializedInts ELSE {s3_port_spine_0}

\* The globals after a request; last_op records the request and the outcome
\* it printed
Finish(op, input_id, invalid, r) ==
  /\ Len(r.g.lock_conflicts) <= MaxConflicts
  /\ desired_owner' = r.g.desired_owner
  /\ s1_to_s2' = r.g.s1_to_s2
  /\ s2_to_s3' = r.g.s2_to_s3
  /\ s3_port_owner' = r.g.s3_port_owner
  /\ s3_port_spine' = r.g.s3_port_spine
  /\ s3_port_spine_0' \in spine_0_after(r)
  /\ lock_conflicts' = r.g.lock_conflicts
  /\ last_stability_cost' = r.g.last_stability_cost
  /\ last_locked_demands' = r.g.last_locked_demands
  /\ last_locked_outputs' = r.g.last_locked_outputs
  /\ last_op' = [op |-> op, input_id |-> input_id, invalid |-> invalid,
                 attempted |-> r.attempted, ret |-> r.ret,
                 primary |-> r.primary, secondary |-> r.secondary]
  /\ solver' = IdleSolver
  /\ UNCHANGED cfgvars

Route ==
  \E input_id \in InputIds, targets \in TargetLists :
    Finish("Route", input_id, InvalidRoute(desired_owner, input_id, targets),
           apply_route_request(Globals, input_id, targets))

Clear ==
  \E input_id \in InputIds :
    Finish("Clear", input_id, ~is_valid_port(input_id),
           apply_clear_request(Globals, input_id))

Next == Route \/ Clear

Spec == Init /\ [][Next]_vars

\* ------------------------------------------------- a crowded egress block ----
\* A command stream in which N + 1 inputs ask for the N ports of egress
\* block 0 one port at a time and nothing is cleared; the run is started
\* with no option
CapInputIds == 1 .. (N + 1)

CapTargetLists == {<<p>> : p \in 1 .. N}

CapInit == Init /\ ~have_previous_state /\ ~strict_stability /\ ~have_locks

CapRoute ==
  \E input_id \in CapInputIds, targets \in CapTargetLists :
    Finish("Route", input_id, InvalidRoute(desired_owner, input_id, targets),
           apply_route_request(Globals, input_id, targets))

CapNext == CapRoute

SpecCap == CapInit /\ [][CapNext]_vars

\* ------------------------------------------------------- repeated targets ----
\* A command stream whose Route requests all name a port more than once, in
\* a run started without --locks
DupTargetLists ==
  { <<1, 4, 1>>, <<5, 8, 8>>, <<3, 3, 6>>, <<7, 7, MAX_PORTS + 1>> }

DupRoute ==
  \E input_id \in InputIds, targets \in DupTargetLists :
    Finish("Route", input_id, InvalidRoute(desired_owner, input_id, targets),
           apply_route_request(Globals, input_id, targets))

DupInit == Init /\ ~have_locks /\ lock_conflicts = <<>>

DupNext == DupRoute \/ Clear

SpecDup == DupInit /\ [][DupNext]_vars

\* ------------------------------------------------------ five-input stream ----
\* A command stream made of five Route requests of five inputs, in any order
\* and with repetitions; the run is started with no option
MrvCommands ==
  { <<4, <<1>>>>, <<2, <<2, 4>>>>, <<5, <<5, 9>>>>, <<6, <<6>>>>, <<3, <<8>>>> }

MrvInit ==
  StartUp({ [prev |-> [given |-> FALSE, spine |-> PrevFile({}, -1)],
             strict |-> FALSE, locks |-> <<>>] })

MrvRoute ==
  \E c \in MrvCommands :
    Finish("Route", c[1], InvalidRoute(desired_owner, c[1], c[2]),
           apply_route_request(Globals, c[1], c[2]))

MrvNext == MrvRoute

SpecMrv == MrvInit /\ [][MrvNext]_vars

\* -------------------------------------------- an input locked on two spines ----
\* A run started with a locks file that pins input 1 to spine 0 towards
\* egress block 0 and to spine 1 towards egress block 1, and with no other
\* option; the inputs of ingress block 0 ask for ports of the first two
\* egress blocks
SearchLocksFile == << LockTuple(1, 0, 0), LockTuple(1, 1, 1) >>

SearchInputIds == 1 .. N

SearchTargetLists == { <<1, N + 1>> } \cup { <<p>> : p \in 2 .. N }

SearchInit ==
  StartUp({ [prev |-> [given |-> FALSE, spine |-> PrevFile({}, -1)],
             strict |-> FALSE, locks |-> SearchLocksFile] })

SearchRoute ==
  \E input_id \in SearchInputIds, targets \in SearchTargetLists :
    Finish("Route", input_id, InvalidRoute(desired_owner, input_id, targets),
           apply_route_request(Globals, input_id, targets))

SearchNext == SearchRoute

SpecSearch == SearchInit /\ [][SearchNext]_vars

\* ------------------------------------------------ the search, call by call ----
\* A run in which the search of a request's primary solve is followed call
\* by call and loop iteration by loop iteration. solver is
\*   [pc |-> "idle"]                            between requests,
\*   [pc, req, outcome, ctx, depth, ret, stack] while a request is served:
\* pc = "call": backtrack(ctx, depth) is entered; pc = "loop": the value
\* loops of the call on top of the stack are at iteration k; pc = "return":
\* a call has returned ret; pc = "done": the search is over (or was not
\* run) and the request completes with outcome, what the request leaves
\* and reports when served in one piece. A stack entry is a call waiting for the
\* call it made: [depth, d, s, k, locked, before], before being the context
\* its saved values are read from.
SolveCommandLines ==
  { [prev |-> [given |-> TRUE, spine |-> PrevFile({4, 8}, 1)],
     strict |-> FALSE, locks |-> SubSeq(LocksFile, 1, 1)] }

SolveInputIds == {1, 2}

SolveTargetLists == { <<1, 4>>, <<5, 8>>, <<3, 6>> }

SolveInit == StartUp(SolveCommandLines)

\* The primary solve of a request with outcome r ran the search
SearchIsRun(r) ==
  /\ r.primary \notin {"NONE", "LOCK", "CAPACITY"}
  /\ build_demands(r.attempted).count > 0

\* process_command_string has read a request: its edits are applied and the
\* solve is at the call backtrack(&ctx, 0), or the request completes
\* without a search
Begin(req, r) ==
  /\ solver.pc = "idle"
  /\ solver' =
       IF SearchIsRun(r)
         THEN [pc |-> "call", req |-> req, outcome |-> r,
               ctx |-> initial_ctx(r.attempted, build_demands(r.attempted).demands,
                                   build_demands(r.attempted).count),
               depth |-> 0, ret |-> FALSE, stack |-> <<>>]
         ELSE [pc |-> "done", req |-> req, outcome |-> r,
               ctx |-> initial_ctx(r.attempted, <<>>, 0),
               depth |-> 0, ret |-> FALSE, stack |-> <<>>]
  /\ UNCHANGED <<desired_owner, fabric, s3_port_spine_0, cfgvars, lock_conflicts,
                 last_stability_cost, last_locked_demands, last_locked_outputs,
                 last_op>>

SolveBegin ==
  \/ \E input_id \in SolveInputIds, targets \in SolveTargetLists :
       Begin([op |-> "Route", input_id |-> input_id, targets |-> targets],
             apply_route_request(Globals, input_id, targets))
  \/ \E input_id \in SolveInputIds :
       Begin([op |-> "Clear", input_id |-> input_id, targets |-> <<>>],
             apply_clear_request(Globals, input_id))

\* A call returns ret, leaving the context c
Returns(c, ret) == [solver EXCEPT !.pc = "return", !.ctx = c, !.ret = ret]

\* The call on top of the stack commits spine s for its demand and calls
\* backtrack(depth + 1)
Descends(stack, c, f, s) ==
  [solver EXCEPT
     !.pc = "call",
     !.stack = stack,
     !.ctx = commit_spine(c, f.depth, f.d, s,
                          c.prev_spine_for[<<f.d.input_id, f.d.egress_block>>]),
     !.depth = f.depth + 1]

\* A waiting call for demand d at depth, with the value loops at k
Frame(depth, d, s, k, locked, before) ==
  [depth |-> depth, d |-> d, s |-> s, k |-> k, locked |-> locked, before |-> before]

\* backtrack from its entry to its first return or to its first call
call_step(ctx, depth) ==
  IF ctx.stability_cost >= ctx.best_stability_cost
    THEN Returns(ctx, FALSE)
  ELSE IF depth = ctx.num_demands
    THEN Returns(record_best(ctx), record_best(ctx).best_stability_cost = 0)
  ELSE IF mrv_scan(ctx, depth, -1, MRV_START).empty
    THEN Returns(ctx, FALSE)
  ELSE
    LET c1 == swap_chosen(ctx, depth, mrv_scan(ctx, depth, -1, MRV_START).best_idx)
        d == c1.demands[depth]
        locked_spine == locked_spine_of(d)
    IN  IF locked_spine >= 0
          THEN IF ~trunk_free(c1, d, locked_spine)
                 THEN Returns(c1, FALSE)
                 ELSE Descends(Append(solver.stack,
                                      Frame(depth, d, locked_spine, 0, TRUE, c1)),
                               c1, Frame(depth, d, locked_spine, 0, TRUE, c1),
                               locked_spine)
          ELSE [solver EXCEPT
                  !.pc = "loop", !.ctx = c1,
                  !.stack = Append(@, Frame(depth, d, 0, 0, FALSE, c1))]

SolveCall ==
  /\ solver.pc = "call"
  /\ solver' = call_step(solver.ctx, solver.depth)
  /\ UNCHANGED <<desired_owner, fabric, s3_port_spine_0, cfgvars, lock_conflicts,
                 last_stability_cost, last_locked_demands, last_locked_outputs,
                 last_op>>

\* A faulty variant of next_k that does not advance
next_k_stuck(k) == k

\* The iteration after iteration k of the value loops (s++, then pass++)
next_k(k) == k + 1

\* Iteration k of the value loops skips its spine
skips(ctx, d, k) ==
  LET pass == k \div N
      s == k % N
      prev_spine == ctx.prev_spine_for[<<d.input_id, d.egress_block>>]
      is_prev == prev_spine >= 0 /\ s = prev_spine
      already_used == s \in ctx.used_spines_mask[d.input_id]
  IN  \/ pass = 0 /\ ~is_prev
      \/ pass = 1 /\ (is_prev \/ ~already_used)
      \/ pass = 2 /\ (is_prev \/ already_used)
      \/ ~trunk_free(ctx, d, s)

\* The stack with field k of its top entry set
WithTop(stack, k, s) ==
  [stack EXCEPT ![Len(stack)] = [@ EXCEPT !.k = k, !.s = s]]

Pop(stack) == SubSeq(stack, 1, Len(stack) - 1)

\* One iteration of the value loops of the call f on top of the stack
loop_step(f) ==
  IF f.k >= 3 * N
    THEN [Returns(solver.ctx, FALSE) EXCEPT !.stack = Pop(solver.stack)]
  ELSE IF skips(solver.ctx, f.d, f.k)
    THEN [solver EXCEPT !.stack = WithTop(@, next_k(f.k), f.s)]
  ELSE Descends(WithTop(solver.stack, f.k, f.k % N), solver.ctx, f, f.k % N)

SolveLoop ==
  /\ solver.pc = "loop"
  /\ solver' = loop_step(solver.stack[Len(solver.stack)])
  /\ UNCHANGED <<desired_owner, fabric, s3_port_spine_0, cfgvars, lock_conflicts,
                 last_stability_cost, last_locked_demands, last_locked_outputs,
                 last_op>>

\* The call f on top of the stack gets the return value of the call it made
return_step(f) ==
  IF solver.ret /\ solver.ctx.best_stability_cost = 0
    THEN [solver EXCEPT !.stack = Pop(@)]
  ELSE IF f.locked
    THEN [solver EXCEPT !.ctx = undo_spine(solver.ctx, f.before, f.d, f.s),
                        !.ret = FALSE, !.stack = Pop(@)]
  ELSE [solver EXCEPT !.pc = "loop",
                      !.ctx = undo_spine(solver.ctx, f.before, f.d, f.s),
                      !.stack = WithTop(@, next_k(f.k), f.s)]

SolveReturn ==
  /\ solver.pc = "return"
  /\ solver' = IF solver.stack = <<>>
                 THEN [solver EXCEPT !.pc = "done"]
                 ELSE return_step(solver.stack[Len(solver.stack)])
  /\ UNCHANGED <<desired_owner, fabric, s3_port_spine_0, cfgvars, lock_conflicts,
                 last_stability_cost, last_locked_demands, last_locked_outputs,
                 last_op>>

\* The request completes: commit, or rollback and repack of the reverted
\* state
SolveEnd ==
  /\ solver.pc = "done"
  /\ Finish(solver.req.op, solver.req.input_id,
            IF solver.req.op = "Route"
              THEN InvalidRoute(desired_owner, solver.req.input_id, solver.req.targets)
              ELSE ~is_valid_port(solver.req.input_id),
            solver.outcome)

SolveStep == SolveCall \/ SolveLoop \/ SolveReturn \/ SolveEnd

SolveNext == SolveBegin \/ SolveStep

\* The program is one thread that runs a request to its end before it reads
\* the next one: a step of the request being served is always taken
SpecSolve == SolveInit /\ [][SolveNext]_vars /\ WF_vars(SolveStep)

\* ------------------------------------- two prior spines in one egress block ----
\* A run started with a previous state in which ports 1 and 2, both of egress
\* block 0, were on spines 0 and 1 (two inputs held them), with or without
\* --strict-stability and without locks
PriorSpines == [p \in Ports |-> IF p = 1 THEN 0 ELSE IF p = 2 THEN 1 ELSE -1]

PriorCommandLines ==
  [prev : { [given |-> TRUE, spine |-> PriorSpines] }, strict : BOOLEAN,
   locks : { <<>> }]

PriorInputIds == {1, 2, N + 1}

PriorTargetLists == { <<1>>, <<2>>, <<1, 2>>, <<2, N + 1>> }

PriorInit == StartUp(PriorCommandLines)

PriorRoute ==
  \E input_id \in PriorInputIds, targets \in PriorTargetLists :
    Finish("Route", input_id, InvalidRoute(desired_owner, input_id, targets),
           apply_route_request(Globals, input_id, targets))

PriorClear ==
  \E input_id \in PriorInputIds :
    Finish("Clear", input_id, ~is_valid_port(input_id),
           apply_clear_request(Globals, input_id))

PriorNext == PriorRoute \/ PriorClear

SpecPrior == PriorInit /\ [][PriorNext]_vars

\* ================================================================ claims ====
\* ----------------------------------------------------- claim vocabulary ----
Solved == last_op.ret /\ last_op.primary = "OK"

Succeeded(op) == last_op.op = op /\ last_op.ret

Failed(op) == last_op.op = op /\ ~last_op.ret

\* The (input, egress block) demands of a declared state
DemandsOf(desired) ==
  {x \in Ports \X Blocks :
     \E p \in Ports : desired[p] = x[1] /\ get_block(p) = x[2]}

\* One spine per demand such that no (spine, egress block) trunk and no
\* (ingress block, spine) trunk carries two inputs, and every lock whose
\* demand exists is honoured
Admissible(desired, a) ==
  /\ \A x, y \in DemandsOf(desired) :
       (x[1] # y[1] /\ a[x] = a[y]) =>
         /\ x[2] # y[2]
         /\ get_block(x[1]) # get_block(y[1])
  /\ \A x \in DemandsOf(desired) :
       (have_locks /\ lock_spine_for[x] >= 0) => a[x] = lock_spine_for[x]

AdmissibleAssignments(desired) ==
  {a \in [DemandsOf(desired) -> Spines] : Admissible(desired, a)}

Feasible(desired) == AdmissibleAssignments(desired) # {}

\* Number of demands with a defined prior spine that a puts elsewhere
CostOf(desired, a) ==
  Cardinality({x \in DemandsOf(desired) :
                 /\ prev_spine_map(desired)[x] >= 0
                 /\ a[x] # prev_spine_map(desired)[x]})

\* The spines the committed fabric gives each committed demand
CommittedSpines(x) ==
  {s3_port_spine[p] : p \in {q \in Ports : s3_port_owner[q] = x[1] /\ get_block(q) = x[2]}}

\* The stability cost of the committed fabric, counted on the fabric itself
CommittedCost ==
  Cardinality({x \in DemandsOf(s3_port_owner) :
                 /\ prev_spine_map(s3_port_owner)[x] >= 0
                 /\ CommittedSpines(x) # {prev_spine_map(s3_port_owner)[x]}})

\* Cross-stage consistency of the committed fabric
FabricConsistent ==
  /\ \A p \in Ports :
       s3_port_owner[p] # 0 =>
         /\ s3_port_owner[p] \in Ports
         /\ s3_port_spine[p] \in Spines
         /\ s2_to_s3[<<s3_port_spine[p], get_block(p)>>] = s3_port_owner[p]
         /\ s1_to_s2[<<get_block(s3_port_owner[p]), s3_port_spine[p]>>] = s3_port_owner[p]
  /\ \A x \in Spines \X Blocks :
       s2_to_s3[x] # 0 =>
         /\ s2_to_s3[x] \in Ports
         /\ s1_to_s2[<<get_block(s2_to_s3[x]), x[1]>>] = s2_to_s3[x]

NothingDeclared == [p \in Ports |-> 0]

\* ---------------------------------------------------------------------------
\* C1: in every state between edits, whether the edits before it succeeded
\* or failed, the owner of every output port is the input declared for it.
C1_OwnerIsDeclared == \A p \in Ports : s3_port_owner[p] = desired_owner[p]

\* A Route has just failed on strict stability over a routed fabric
C1_Witness ==
  /\ Failed("Route") /\ last_op.primary = "STRICT"
  /\ desired_owner # NothingDeclared

\* C2: after every successful Route or Clear the committed fabric is
\* cross-stage consistent and single-owner: every owned port has an owner in
\* 1..N^2 and a spine in 0..N-1, its S2 trunk and its owner's S1 trunk carry
\* the owner, and every populated S2 trunk has the matching S1 trunk.
C2_ConsistentAfterSuccess ==
  (Succeeded("Route") \/ Succeeded("Clear")) => FabricConsistent

\* A Route has just succeeded with three inputs routed and a re-routed demand
C2_Witness ==
  /\ Succeeded("Route") /\ last_op.primary = "OK"
  /\ Cardinality({s3_port_owner[p] : p \in Ports} \ {0}) = 3
  /\ last_stability_cost > 0

\* C3: a Route that fails, for whatever reason, leaves the declared state
\* and the fabric (S1, S2, owner, spine) exactly as they were before it.
C3_RollbackAtomicity ==
  [][ (last_op'.op = "Route" /\ ~last_op'.ret) =>
        (desired_owner' = desired_owner /\ fabric' = fabric) ]_vars

\* A Route has just failed the validation that follows the commit, over a
\* routed fabric
C3_Witness ==
  /\ Failed("Route") /\ last_op.primary = "VALIDATION"
  /\ s3_port_owner # NothingDeclared

\* C4: with strict stability off, a Route whose declared state admits an
\* assignment respecting the trunk constraints and the locks succeeds, and a
\* fabric realising that declared state is committed.
C4_Completeness ==
  ( /\ last_op.op = "Route" /\ ~last_op.invalid
    /\ ~strict_stability
    /\ Feasible(last_op.attempted) ) =>
      ( /\ last_op.ret
        /\ desired_owner = last_op.attempted
        /\ s3_port_owner = last_op.attempted
        /\ FabricConsistent )

\* C5: after every successful solve, every lock (i, e) -> s whose demand
\* exists in the committed declared state is honoured: each port of egress
\* block e owned by i is on spine s, and S2[s, e] = i; also when a prior
\* state is loaded and the solution has a non-zero stability cost.
C5_LockFidelity ==
  Solved =>
    \A x \in DemandsOf(desired_owner) :
      lock_spine_for[x] >= 0 =>
        /\ \A p \in Ports :
             (s3_port_owner[p] = x[1] /\ get_block(p) = x[2]) =>
               s3_port_spine[p] = lock_spine_for[x]
        /\ s2_to_s3[<<lock_spine_for[x], x[2]>>] = x[1]

\* A solve has just succeeded with a prior state loaded, a locked demand
\* present among five demands or more, and a non-zero stability cost
C5_Witness ==
  /\ Solved /\ have_previous_state /\ last_stability_cost > 0
  /\ \E x \in DemandsOf(desired_owner) : lock_spine_for[x] >= 0
  /\ Cardinality(DemandsOf(desired_owner)) >= 5

\* C6: the assignment committed by a successful solve has the minimum
\* stability cost among all assignments that satisfy the trunk constraints
\* and the locks.
C6_StabilityOptimal ==
  Solved =>
    \A a \in AdmissibleAssignments(desired_owner) :
      CommittedCost <= CostOf(desired_owner, a)

\* C7: the stability cost reported for a successful solve equals the number
\* of demands of the committed fabric whose committed spine differs from
\* their defined prior spine, counted on the committed fabric.
C7_ReportedCostIsCommittedCost == Solved => last_stability_cost = CommittedCost

\* C8: in any reachable state whose declared state is realised by the
\* fabric, Clear(i) for a valid input i succeeds, and afterwards no port is
\* declared to or owned by i.
C8_ClearMonotonicity ==
  (last_op.op = "Clear" /\ ~last_op.invalid) =>
    /\ last_op.ret
    /\ \A p \in Ports :
         desired_owner[p] # last_op.input_id /\ s3_port_owner[p] # last_op.input_id

\* C9: whenever the primary solve of a Route or Clear fails with an UNSAT
\* kind, the secondary solve of the reverted declared state succeeds.
C9_SecondarySolveSucceeds ==
  last_op.primary \in {"CAPACITY", "LOCK", "SEARCH", "STRICT"} =>
    last_op.secondary = "OK"

\* C10: a Route with an out-of-range input, an empty target list, an
\* out-of-range target or a target declared to another input is rejected
\* with nothing applied: the declared state and the fabric are unchanged, and
\* no solve is run.
C10_InvalidRouteRejected ==
  [][ (last_op'.op = "Route" /\ last_op'.invalid) =>
        /\ ~last_op'.ret
        /\ last_op'.primary = "NONE"
        /\ desired_owner' = desired_owner
        /\ fabric' = fabric
        /\ lock_conflicts' = lock_conflicts
        /\ last_stability_cost' = last_stability_cost
        /\ last_locked_demands' = last_locked_demands
        /\ last_locked_outputs' = last_locked_outputs ]_vars

\* A Route from a valid input has just been rejected for its targets, with
\* port 7 (the target before the out-of-range one) still undeclared
C10_Witness ==
  /\ last_op.op = "Route" /\ last_op.invalid
  /\ last_op.input_id \in Ports
  /\ desired_owner # NothingDeclared
  /\ desired_owner[7] = 0

\* ---------------------------------------------------------------------------
\* The inputs declared on the ports of egress block e
OwnersIn(desired, e) ==
  {desired[p] : p \in {q \in Ports : get_block(q) = e}} \ {0}

\* Route(i, t) would bring one more input into an egress block that N
\* distinct inputs already occupy
IntroducesExtraInput(desired, i, t) ==
  /\ i \in Ports
  /\ \E e \in Blocks :
       /\ Cardinality(OwnersIn(desired, e)) = N
       /\ i \notin OwnersIn(desired, e)
       /\ \E k \in 1 .. Len(t) : t[k] \in Ports /\ get_block(t[k]) = e

\* C11 as stated: when N + 1 distinct inputs each request a target in the
\* same egress block, the request that introduces the (N+1)-th input fails
\* with UNSAT(CAPACITY), rejected by the capacity pre-check.
C11_CapacityRejects ==
  \A i \in CapInputIds, t \in CapTargetLists :
    IntroducesExtraInput(desired_owner, i, t) =>
      apply_route_request(Globals, i, t).primary = "CAPACITY"

\* The outcome r of a request is a rejection before any solve, with nothing
\* applied to the globals g
RejectedUnsolved(g, r) ==
  /\ ~r.ret
  /\ r.primary = "NONE"
  /\ r.g = g

\* C11 as amended: when N distinct inputs hold the ports of an egress block,
\* a Route of a further input to a port of that block is rejected as invalid
\* input (the target is declared to another input): it fails, nothing is
\* applied and no solve, hence no capacity pre-check, is run.
C11_ExtraInputIsInvalid ==
  \A i \in CapInputIds, t \in CapTargetLists :
    IntroducesExtraInput(desired_owner, i, t) =>
      RejectedUnsolved(Globals, apply_route_request(Globals, i, t))

\* Egress block 0 is held by N distinct inputs and a Route of a further
\* input has just been rejected
C11_Witness ==
  /\ Cardinality(OwnersIn(desired_owner, 0)) = N
  /\ last_op.op = "Route" /\ last_op.invalid /\ ~last_op.ret
  /\ last_op.input_id \in Ports \ OwnersIn(desired_owner, 0)

\* ---------------------------------------------------------------------------
\* Two locks whose demands both exist in the declared state pin different
\* inputs to one (spine, egress block) trunk or one (ingress block, spine)
\* trunk
LocksCollide(desired) ==
  \E d1 \in DemandsOf(desired), d2 \in DemandsOf(desired) :
    /\ d1[1] # d2[1]
    /\ lock_spine_for[d1] >= 0
    /\ lock_spine_for[d1] = lock_spine_for[d2]
    /\ (d1[2] = d2[2] \/ get_block(d1[1]) = get_block(d2[1]))

\* C12: a solve fails with UNSAT(LOCK) and records a CONFLICT entry exactly
\* when two locks whose demands both exist in the declared state it solves
\* pin different inputs to the same trunk; here for the primary solve of
\* every command that reaches one.
C12_LockFailureIffCollision ==
  [][ last_op'.primary # "NONE" =>
        /\ last_op'.primary = "LOCK" <=> LocksCollide(last_op'.attempted)
        /\ LocksCollide(last_op'.attempted) =>
             Len(lock_conflicts') > Len(lock_conflicts) ]_vars

\* ---------------------------------------------------------------------------
\* lock_conflicts holds an entry recorded by load_locks: a RANGE entry, or a
\* CONFLICT entry for a spine other than the one its (input, egress block)
\* is locked to
LoadTimeConflict ==
  \E k \in 1 .. Len(lock_conflicts) :
    \/ lock_conflicts[k].reason = "RANGE"
    \/ lock_spine_for[<<lock_conflicts[k].input_id,
                        lock_conflicts[k].egress_block>>] # lock_conflicts[k].spine

\* The declared state has a demand named by a recorded conflict, or two
\* colliding locks
InvolvesConflictingLock(desired) ==
  \/ LocksCollide(desired)
  \/ \E k \in 1 .. Len(lock_conflicts) :
       <<lock_conflicts[k].input_id, lock_conflicts[k].egress_block>>
         \in DemandsOf(desired)

\* C13: a conflict recorded while loading locks is not fatal: a solve whose
\* demand set involves no conflicting lock does not fail with UNSAT(LOCK);
\* here for the primary solve of every command that reaches one.
C13_LoadConflictNotFatal ==
  [][ ( /\ LoadTimeConflict
        /\ last_op'.primary # "NONE"
        /\ ~InvolvesConflictingLock(last_op'.attempted) )
      => last_op'.primary # "LOCK" ]_vars

\* ---------------------------------------------------------------------------
\* C14: with strict_stability enabled a solve whose best stability cost is
\* greater than 0 fails and the edit is rolled back, so in every committed
\* fabric each demand with a defined prior spine sits on that prior spine.
C14_StrictKeepsPriorSpines ==
  strict_stability =>
    /\ \A x \in DemandsOf(s3_port_owner) :
         prev_spine_map(s3_port_owner)[x] >= 0 =>
           CommittedSpines(x) = {prev_spine_map(s3_port_owner)[x]}
    /\ last_op.primary = "STRICT" =>
         /\ ~last_op.ret
         /\ last_op.attempted # desired_owner

\* Under strict stability a solve has just failed for its cost while the
\* committed fabric carries a demand with a defined prior spine
C14_Witness ==
  /\ strict_stability
  /\ last_op.primary = "STRICT" /\ ~last_op.ret
  /\ \E x \in DemandsOf(s3_port_owner) : prev_spine_map(s3_port_owner)[x] >= 0

\* ---------------------------------------------------------------------------
\* C15: determinism: the committed state a request leaves (S1, S2, declared
\* vector, owner[0..N^2] and spine[0..N^2], index 0 included) is determined
\* by the state before it and the request, so that two runs given the same
\* start-up and the same requests end alike. Every other variable of a
\* request's outcome is a function of the state and the request; the entry
\* spine[0] must then be one value.
C15_Determinism ==
  /\ \A input_id \in InputIds, targets \in TargetLists :
       Cardinality(spine_0_after(apply_route_request(Globals, input_id, targets))) = 1
  /\ \A input_id \in InputIds :
       Cardinality(spine_0_after(apply_clear_request(Globals, input_id))) = 1

\* ---------------------------------------------------------------------------
\* The request just made was a Route all of whose targets were already
\* declared to its input
SelfReassignment ==
  /\ last_op'.op = "Route"
  /\ ~last_op'.invalid
  /\ last_op'.attempted = desired_owner

\* C16: self-reassignment is a no-op: a Route(i, targets) in which every
\* target is already declared to i succeeds and leaves the declared state
\* and the committed fabric (S1, S2, owner, spine of the ports) as they were.
C16_SelfReassignmentNoOp ==
  [][ SelfReassignment =>
        /\ last_op'.ret
        /\ desired_owner' = desired_owner
        /\ fabric' = fabric ]_vars

\* ---------------------------------------------------------------------------
\* A target list without its repeated ports (the first occurrence is kept)
RECURSIVE RemoveDuplicates(_)
RemoveDuplicates(t) ==
  IF t = <<>> THEN <<>>
  ELSE LET front == RemoveDuplicates(SubSeq(t, 1, Len(t) - 1))
           p == t[Len(t)]
       IN  IF \E k \in 1 .. Len(front) : front[k] = p THEN front
           ELSE Append(front, p)

\* The outcome r of a Route is the outcome of the Route without duplicates,
\* and when it failed its targets are declared as before
SameOutcomeAndRestored(targets, r, plain) ==
  /\ r = plain
  /\ ~r.ret =>
       \A k \in 1 .. Len(targets) :
         targets[k] \in Ports =>
           r.g.desired_owner[targets[k]] = desired_owner[targets[k]]

\* C17: duplicate targets are tolerated: a Route(i, targets) whose target
\* list repeats a port has the same outcome (success or failure, resulting
\* declared state and fabric) as the same Route with the duplicates removed,
\* and on failure every repeated port is back with its pre-Route owner.
C17_DuplicatesTolerated ==
  \A input_id \in InputIds, targets \in DupTargetLists :
    SameOutcomeAndRestored(targets,
      apply_route_request(Globals, input_id, targets),
      apply_route_request(Globals, input_id, RemoveDuplicates(targets)))

\* A Route with a repeated port was solved, failed and was rolled back
C17_Witness ==
  /\ last_op.op = "Route" /\ ~last_op.invalid
  /\ ~last_op.ret /\ last_op.primary # "NONE"
  /\ last_op.attempted # desired_owner

\* ---------------------------------------------------------------------------
\* The globals when the primary solve of Route(input_id, targets) starts:
\* the staged edits are applied to the declared state
AtPrimarySolve(g, input_id, targets) ==
  [g EXCEPT !.desired_owner =
     apply_edits(@, stage_edits(g.desired_owner, input_id, targets, 1, <<>>).edits,
                 input_id, 1)]

FabricOf(g) == <<g.s1_to_s2, g.s2_to_s3, g.s3_port_owner, g.s3_port_spine>>

\* A solve that started from g and ended as r left the live fabric alone
\* when it failed, and overwrote it only with a fabric that passes the
\* validation
ValidatedBeforeCommit(g, r) ==
  /\ ~r.ret => FabricOf(r.g) = FabricOf(g)
  /\ FabricOf(r.g) # FabricOf(g) => validate_fabric(r.g)

\* C18: within a solve, validation precedes commit: a solve that fails at
\* any step leaves the live S1, S2, owner and spine exactly as they were
\* when it started, and the live matrices are only ever overwritten by a
\* solution that has passed the validation; here for the primary solve of
\* every Route that reaches one.
C18_ValidationPrecedesCommit ==
  \A input_id \in InputIds, targets \in TargetLists :
    ~InvalidRoute(desired_owner, input_id, targets) =>
      ValidatedBeforeCommit(Globals,
        repack_fabric_and_commit(AtPrimarySolve(Globals, input_id, targets)))

\* ---------------------------------------------------------------------------
\* The context the search leaves when it is run on a declared state
SearchOf(desired) ==
  backtrack(initial_ctx(desired, build_demands(desired).demands,
                        build_demands(desired).count), 0).ctx

\* The spine the recorded best solution chose for demand d
RecordedSpine(ctx, d) ==
  ctx.best_assignment[CHOOSE j \in 0 .. (ctx.num_demands - 1) :
                        ctx.recorded_demands[j] = d]

\* best_assignment[k] is the recorded spine of the demand now at demands[k]
Aligned(ctx) ==
  ctx.best_stability_cost # NO_SOLUTION =>
    \A k \in 0 .. (ctx.num_demands - 1) :
      ctx.best_assignment[k] = RecordedSpine(ctx, ctx.demands[k])

\* C19: when search ends with a recorded best solution, best_assignment[k]
\* is the spine that this best solution chose for the demand stored at
\* demands[k] at materialisation time, for every k: demand swaps performed by
\* MRV after the best solution was recorded never separate a demand from its
\* recorded spine; here for the search on the declared state of every
\* reachable state.
C19_BestAssignmentAligned == Aligned(SearchOf(desired_owner))

\* ---------------------------------------------------------------------------
\* What a call of backtrack must leave as it found it when it returns
\* false: the two temporary trunk matrices, the used-spine masks and the
\* running stability cost
SameSearchState(a, b) ==
  /\ \A x \in Spines \X Blocks : a.tmp_s2[x] = b.tmp_s2[x]
  /\ \A x \in Blocks \X Spines : a.tmp_s1_owner[x] = b.tmp_s1_owner[x]
  /\ \A i \in 0 .. MAX_PORTS : a.used_spines_mask[i] = b.used_spines_mask[i]
  /\ a.stability_cost = b.stability_cost

\* used[i] holds spine s exactly when an assigned demand of input i (one of
\* the positions below depth) uses s
UsedExact(ctx, depth) ==
  \A i \in 0 .. MAX_PORTS :
    ctx.used_spines_mask[i] =
      {ctx.assignment[k] : k \in {j \in 0 .. (depth - 1) : ctx.demands[j].input_id = i}}

\* The call backtrack(depth) entered with context entry ended as r
UndoneOnFalse(entry, depth, r) ==
  ~r.ret => /\ SameSearchState(r.ctx, entry)
            /\ UsedExact(r.ctx, depth)

\* UndoneOnFalse for the call backtrack(ctx, depth) and for every call below
\* it; the calls below are found by following the code of backtrack
RECURSIVE ExactUndo(_, _)
RECURSIVE ExactUndoTries(_, _, _, _)
RECURSIVE ExactUndoNext(_, _, _, _, _, _)

ExactUndoNext(ctx, depth, d, k, s, r) ==
  \/ r.ret /\ r.ctx.best_stability_cost = 0
  \/ ExactUndoTries(undo_spine(r.ctx, ctx, d, s), depth, d, k + 1)

ExactUndoTries(ctx, depth, d, k) ==
  IF k >= 3 * N THEN TRUE
  ELSE
    LET pass == k \div N
        s == k % N
        prev_spine == ctx.prev_spine_for[<<d.input_id, d.egress_block>>]
        is_prev == prev_spine >= 0 /\ s = prev_spine
        already_used == s \in ctx.used_spines_mask[d.input_id]
        skip == \/ pass = 0 /\ ~is_prev
                \/ pass = 1 /\ (is_prev \/ ~already_used)
                \/ pass = 2 /\ (is_prev \/ already_used)
                \/ ~trunk_free(ctx, d, s)
    IN  IF skip THEN ExactUndoTries(ctx, depth, d, k + 1)
        ELSE /\ ExactUndo(commit_spine(ctx, depth, d, s, prev_spine), depth + 1)
             /\ ExactUndoNext(ctx, depth, d, k, s,
                  backtrack(commit_spine(ctx, depth, d, s, prev_spine), depth + 1))

ExactUndo(ctx, depth) ==
  /\ UndoneOnFalse(ctx, depth, backtrack(ctx, depth))
  /\ \/ ctx.stability_cost >= ctx.best_stability_cost
     \/ depth = ctx.num_demands
     \/ mrv_scan(ctx, depth, -1, MRV_START).empty
     \/ LET c1 == swap_chosen(ctx, depth, mrv_scan(ctx, depth, -1, MRV_START).best_idx)
            d == c1.demands[depth]
            prev_spine == c1.prev_spine_for[<<d.input_id, d.egress_block>>]
        IN  IF locked_spine_of(d) >= 0
              THEN trunk_free(c1, d, locked_spine_of(d)) =>
                     ExactUndo(commit_spine(c1, depth, d, locked_spine_of(d), prev_spine),
                               depth + 1)
              ELSE ExactUndoTries(c1, depth, d, 0)

\* The context solve_and_build_solution hands to the search for the declared
\* state
SearchEntry(desired) ==
  initial_ctx(desired, build_demands(desired).demands, build_demands(desired).count)

\* C20: exact undo: whenever a call backtrack(depth) returns false, the
\* temporary egress-trunk matrix, the temporary ingress-trunk matrix, every
\* per-input used-spine mask and the running stability cost have exactly the
\* values they had when that call was entered, and used[i] contains spine s
\* exactly when some currently assigned demand of input i uses s; here for
\* every call of the search on the declared state of every reachable state.
C20_ExactUndo ==
  build_demands(desired_owner).count > 0 => ExactUndo(SearchEntry(desired_owner), 0)

\* A solve has just been committed whose search ran to the end and returned
\* false, every provisional commit undone, with a best cost above 0
C20_Witness ==
  /\ last_op.primary = "OK" /\ last_op.op = "Route"
  /\ last_stability_cost > 0
  /\ build_demands(desired_owner).count > 1
  /\ ~backtrack(SearchEntry(desired_owner), 0).ret

\* ---------------------------------------------------------------------------
\* The positions of the demands that have no spine yet in a call at depth
Remaining(ctx, depth) == depth .. (ctx.num_demands - 1)

\* The remaining positions with no demand of domain 1 before them
Scanned(ctx, depth) ==
  { i \in Remaining(ctx, depth) :
      \A j \in Remaining(ctx, depth) :
        j < i => domain_size(ctx, ctx.demands[j]) # 1 }

\* The outcome m of the MRV scan of a call, over a set of positions: with an
\* empty domain among them the call returns at once; otherwise the chosen
\* demand has the smallest domain, and no demand before it has a domain as
\* small
MrvChoice(ctx, positions, m) ==
  IF \E i \in positions : domain_size(ctx, ctx.demands[i]) = 0
    THEN m.empty
    ELSE /\ ~m.empty
         /\ m.best_idx \in positions
         /\ \A i \in positions :
              /\ domain_size(ctx, ctx.demands[m.best_idx])
                   <= domain_size(ctx, ctx.demands[i])
              /\ i < m.best_idx =>
                   domain_size(ctx, ctx.demands[m.best_idx])
                     < domain_size(ctx, ctx.demands[i])

\* MrvChoice for the call backtrack(ctx, depth) and for every call below it,
\* over all remaining positions or (stop) over the scanned ones; the calls
\* below are found by following the code of backtrack
RECURSIVE MrvEveryCall(_, _, _)
RECURSIVE MrvEveryTry(_, _, _, _, _)
RECURSIVE MrvNextTry(_, _, _, _, _, _, _)

MrvNextTry(ctx, depth, d, k, s, r, stop) ==
  \/ r.ret /\ r.ctx.best_stability_cost = 0
  \/ MrvEveryTry(undo_spine(r.ctx, ctx, d, s), depth, d, k + 1, stop)

MrvEveryTry(ctx, depth, d, k, stop) ==
  IF k >= 3 * N THEN TRUE
  ELSE
    LET pass == k \div N
        s == k % N
        prev_spine == ctx.prev_spine_for[<<d.input_id, d.egress_block>>]
        is_prev == prev_spine >= 0 /\ s = prev_spine
        already_used == s \in ctx.used_spines_mask[d.input_id]
        skip == \/ pass = 0 /\ ~is_prev
                \/ pass = 1 /\ (is_prev \/ ~already_used)
                \/ pass = 2 /\ (is_prev \/ already_used)
                \/ ~trunk_free(ctx, d, s)
    IN  IF skip THEN MrvEveryTry(ctx, depth, d, k + 1, stop)
        ELSE /\ MrvEveryCall(commit_spine(ctx, depth, d, s, prev_spine), depth + 1, stop)
             /\ MrvNextTry(ctx, depth, d, k, s,
                  backtrack(commit_spine(ctx, depth, d, s, prev_spine), depth + 1), stop)

MrvEveryCall(ctx, depth, stop) ==
  \/ ctx.stability_cost >= ctx.best_stability_cost
  \/ depth = ctx.num_demands
  \/ /\ MrvChoice(ctx, IF stop THEN Scanned(ctx, depth) ELSE Remaining(ctx, depth),
                  mrv_scan(ctx, depth, -1, MRV_START))
     /\ \/ mrv_scan(ctx, depth, -1, MRV_START).empty
        \/ LET c1 == swap_chosen(ctx, depth, mrv_scan(ctx, depth, -1, MRV_START).best_idx)
               d == c1.demands[depth]
               prev_spine == c1.prev_spine_for[<<d.input_id, d.egress_block>>]
           IN  IF locked_spine_of(d) >= 0
                 THEN trunk_free(c1, d, locked_spine_of(d)) =>
                        MrvEveryCall(commit_spine(c1, depth, d, locked_spine_of(d), prev_spine),
                                     depth + 1, stop)
                 ELSE MrvEveryTry(c1, depth, d, 0, stop)

\* The last request ran the search (its primary solve got past the lock
\* check with at least one demand)
SearchRan ==
  /\ last_op.primary \notin {"NONE", "LOCK"}
  /\ build_demands(last_op.attempted).count > 0

\* C21: MRV selection: at each search depth the demand chosen is one with
\* the smallest current domain among all remaining demands (ties broken by
\* lowest position), and if any remaining demand has an empty domain the
\* call backtracks immediately without trying a value for any demand; here
\* for every call of the search of the last request's primary solve.
C21_MrvSelection ==
  SearchRan => MrvEveryCall(SearchEntry(last_op.attempted), 0, FALSE)

\* C21 (amended): the scan of the remaining demands stops at the first
\* demand whose domain is 1; the demand chosen is one with the smallest
\* current domain among the demands scanned (ties broken by lowest
\* position), and if any scanned demand has an empty domain the call
\* backtracks immediately without trying a value for any demand.
C21_MrvSelectionOfScanned ==
  SearchRan => MrvEveryCall(SearchEntry(last_op.attempted), 0, TRUE)

\* A search that ended with a demand order other than the built one: some
\* call chose a demand that was not the first of the remaining ones
C21_Witness ==
  /\ SearchRan
  /\ \E i \in 0 .. (build_demands(last_op.attempted).count - 1) :
       backtrack(SearchEntry(last_op.attempted), 0).ctx.demands[i]
         # build_demands(last_op.attempted).demands[i]

\* ---------------------------------------------------------------------------
\* Nothing is declared, no trunk is taken, the run was started without
\* --previous-state and without --locks
FreshFabric ==
  /\ desired_owner = NothingDeclared
  /\ \A x \in Blocks \X Spines : s1_to_s2[x] = 0
  /\ \A x \in Spines \X Blocks : s2_to_s3[x] = 0
  /\ ~have_previous_state /\ ~have_locks /\ lock_conflicts = <<>>

\* The fabric in which input i reaches the egress blocks es over spine 0
\* and no other trunk is taken
OnlySpineZero(i, es, s1, s2) ==
  /\ \A x \in Blocks \X Spines :
       s1[x] = (IF x = <<get_block(i), 0>> THEN i ELSE 0)
  /\ \A x \in Spines \X Blocks :
       s2[x] = (IF x[1] = 0 /\ x[2] \in es THEN i ELSE 0)

\* C22: value ordering on a fresh fabric: with no prior state and no locks,
\* the first Route(i, targets) into an empty fabric commits spine 0 for
\* every demand of i, whatever number of egress blocks the targets span, so
\* that S1[block(i), 0] = i, S2[0, e] = i for each targeted block e, all
\* other trunk cells are 0 and total branches = 1.
C22_FreshRouteStep ==
  (FreshFabric /\ last_op'.op = "Route" /\ ~last_op'.invalid) =>
    /\ last_op'.ret
    /\ \A p \in Ports :
         desired_owner'[p] # 0 =>
           s3_port_owner'[p] = last_op'.input_id /\ s3_port_spine'[p] = 0
    /\ OnlySpineZero(last_op'.input_id,
                     {get_block(p) : p \in {q \in Ports : desired_owner'[q] # 0}},
                     s1_to_s2', s2_to_s3')
    /\ total_branches(s3_port_owner', s3_port_spine') = 1

C22_FreshRouteSpineZero == [][C22_FreshRouteStep]_vars

\* A successful Route has left one input declared, over two egress blocks,
\* in a run without prior state and locks
C22_Witness ==
  /\ Succeeded("Route") /\ ~have_previous_state
  /\ ~have_locks /\ lock_conflicts = <<>>
  /\ \A p \in Ports : desired_owner[p] \in {0, last_op.input_id}
  /\ Cardinality({get_block(p) : p \in {q \in Ports : desired_owner[q] # 0}}) = 2
  /\ total_branches(s3_port_owner, s3_port_spine) = 1

\* ---------------------------------------------------------------------------
\* C23: UNSAT(SEARCH) is reachable: a solve passes both the lock pre-check
\* and the capacity pre-check, yet the search exhausts without any
\* assignment (locks of one input occupy every ingress trunk another input
\* of the same block would need) and the edit fails and is rolled back.
\* As an invariant: a request whose primary solve ended in UNSAT(SEARCH)
\* passed both pre-checks, worked on a declared state that no admissible
\* assignment realises, failed, and left a declared state other than the
\* one it attempted, realised by the fabric.
C23_SearchFailureRolledBack ==
  last_op.primary = "SEARCH" =>
    /\ validate_locks_against_demands(build_demands(last_op.attempted).need,
                                      lock_conflicts).ok
    /\ quick_capacity_check(build_demands(last_op.attempted).need)
    /\ SearchOf(last_op.attempted).best_stability_cost = NO_SOLUTION
    /\ ~Feasible(last_op.attempted)
    /\ ~last_op.ret
    /\ desired_owner # last_op.attempted
    /\ \A p \in Ports : s3_port_owner[p] = desired_owner[p]
    /\ FabricConsistent

\* A Route of the last input of ingress block 0 has failed in the search:
\* input 1 holds two of the block's trunks by its locks and the other
\* inputs hold the rest
C23_Witness ==
  /\ Failed("Route") /\ last_op.primary = "SEARCH" /\ last_op.secondary = "OK"
  /\ \E p \in Ports : desired_owner[p] = 1 /\ s3_port_spine[p] = 0
  /\ \E p \in Ports : desired_owner[p] = 1 /\ s3_port_spine[p] = 1
  /\ Cardinality({last_op.attempted[p] : p \in Ports} \ {0}) = N

\* ---------------------------------------------------------------------------
\* The ports a declared state connects
ConnectedPorts(desired) == {p \in Ports : desired[p] # 0}

\* What build_demands returned (bd) for a declared state: no overflow, one
\* demand per pair (i, e) with a port of egress block e declared to i, in
\* ascending (input, egress block) order, and no more demands than
\* connected ports
OneDemandPerPair(desired, bd) ==
  /\ bd.count >= 0
  /\ bd.count = Cardinality(DemandsOf(desired))
  /\ \A x \in DemandsOf(desired) :
       \E k \in 0 .. (bd.count - 1) :
         /\ bd.demands[k].input_id = x[1]
         /\ bd.demands[k].egress_block = x[2]
         /\ bd.demands[k].ingress_block = get_block(x[1])
  /\ \A k, j \in 0 .. (bd.count - 1) :
       k < j =>
         \/ bd.demands[k].input_id < bd.demands[j].input_id
         \/ /\ bd.demands[k].input_id = bd.demands[j].input_id
            /\ bd.demands[k].egress_block < bd.demands[j].egress_block
  /\ bd.count <= Cardinality(ConnectedPorts(desired))
  /\ Cardinality(ConnectedPorts(desired)) <= N * N
  /\ bd.count <= g_max_demands

\* C24: for every reachable declared state the demand builder emits exactly
\* one demand per pair (i, e) such that some port of egress block e is
\* declared to i, in ascending (input, egress-block) order, and the number
\* of demands is at most the number of connected output ports, hence at
\* most N^2; the overflow abort (count exceeding N^3) is never taken. Here
\* for the declared state between requests and for the one the last
\* request attempted.
C24_OneDemandPerPair ==
  /\ OneDemandPerPair(desired_owner, build_demands(desired_owner))
  /\ OneDemandPerPair(last_op.attempted, build_demands(last_op.attempted))

\* Two inputs are declared, one of them with two ports in one egress block:
\* fewer demands than connected ports, and demands of two inputs to order
C24_Witness ==
  /\ build_demands(desired_owner).count >= 3
  /\ build_demands(desired_owner).count < Cardinality(ConnectedPorts(desired_owner))
  /\ Cardinality({desired_owner[p] : p \in ConnectedPorts(desired_owner)}) >= 2

\* ---------------------------------------------------------------------------
\* Every taken trunk of the fabric is in use: a second-stage trunk carries
\* its input to a port of its egress block, a first-stage trunk belongs to
\* the ingress block of its input and feeds a second-stage trunk
NoStaleTrunk ==
  /\ \A x \in Spines \X Blocks :
       s2_to_s3[x] # 0 =>
         \E p \in Ports : /\ get_block(p) = x[2]
                          /\ s3_port_owner[p] = s2_to_s3[x]
                          /\ s3_port_spine[p] = x[1]
  /\ \A x \in Blocks \X Spines :
       s1_to_s2[x] # 0 =>
         /\ is_valid_port(s1_to_s2[x])
         /\ x[1] = get_block(s1_to_s2[x])
         /\ \E e \in Blocks : s2_to_s3[<<x[2], e>>] = s1_to_s2[x]

\* Input i occurs nowhere in the fabric
Absent(i) ==
  /\ \A x \in Blocks \X Spines : s1_to_s2[x] # i
  /\ \A x \in Spines \X Blocks : s2_to_s3[x] # i
  /\ \A p \in Ports : s3_port_owner[p] # i

\* C25: the realised matrices are replaced wholesale on each successful
\* solve, leaving no stale trunk: afterwards S2[s, e] = i # 0 implies some
\* port of block e is owned by i with spine s, and S1[b, s] = i # 0 implies
\* b = block(i) and S2[s, e] = i for some e; in particular after a
\* successful Clear(i) the identity i occurs nowhere in S1, S2 or owner.
\* Here for the fabric left by a request whose primary solve, or whose
\* solve of the rolled-back state, succeeded.
C25_NoStaleTrunk ==
  /\ (last_op.primary = "OK" \/ last_op.secondary = "OK") => NoStaleTrunk
  /\ (Solved /\ last_op.op = "Clear") => Absent(last_op.input_id)

\* A successful Clear has left other inputs routed, over more than one spine
C25_Witness ==
  /\ Succeeded("Clear") /\ last_op.primary = "OK" /\ ~last_op.invalid
  /\ desired_owner # NothingDeclared
  /\ Cardinality({s3_port_spine[p] : p \in Ports} \ {-1}) >= 2

\* ---------------------------------------------------------------------------
\* A port has no spine exactly when it has no owner
SpineIffOwner ==
  \A p \in Ports : (s3_port_spine[p] = -1) <=> (s3_port_owner[p] = 0)

\* C26: sentinel discipline over the whole reported vectors: in every
\* state, owner[0] = 0 and spine[0] = -1, and for every p in 1..N^2,
\* spine[p] = -1 exactly when owner[p] = 0; committing a solution (the
\* trivial no-demand solution included) never stores any other value at
\* index 0. (owner[0] is 0 in every solution buffer, which calloc zeroes;
\* the entry of the spine vector is s3_port_spine_0.)
C26_SentinelDiscipline ==
  /\ s3_port_spine_0 = -1
  /\ SpineIffOwner

\* ---------------------------------------------------------------------------
\* A request is being served
Serving == solver.pc # "idle"

\* The search followed call by call has ended as the search run in one
\* piece ends
SameEnd(a, b) ==
  /\ SameSearchState(a, b)
  /\ a.best_stability_cost = b.best_stability_cost
  /\ \A k \in 0 .. (a.num_demands - 1) :
       /\ a.best_assignment[k] = b.best_assignment[k]
       /\ a.demands[k] = b.demands[k]

SameAsSearchOf ==
  (solver.pc = "done" /\ solver.ctx.num_demands > 0) =>
    SameEnd(solver.ctx, SearchOf(solver.outcome.attempted))

\* C27: every solve terminates: for every declared state, prior state and
\* lock set, the backtracking search eventually returns, either with a
\* recorded best assignment or with proof of unsatisfiability, so every
\* Route and Clear eventually completes with a commit or a rollback. The
\* search that returns is the one whose result the request acts on.
C27_EverySolveTerminates == (Serving ~> ~Serving) /\ []SameAsSearchOf

\* Three calls deep, a call of the search has returned false, and a
\* solution was recorded before: the search is backtracking for a better one
C27_Witness ==
  /\ solver.pc = "return" /\ ~solver.ret
  /\ Len(solver.stack) >= 3
  /\ solver.ctx.best_stability_cost # NO_SOLUTION

\* ---------------------------------------------------------------------------
\* The inputs a declared state sends to egress block e, and its active
\* inputs of ingress block b
InputsTo(desired, e) == {desired[p] : p \in {q \in Ports : get_block(q) = e}} \ {0}

ActiveIn(desired, b) ==
  {desired[p] : p \in Ports} \cap {i \in Ports : get_block(i) = b}

\* C28: the capacity pre-check can never fail: for every declared state
\* reachable through Route and Clear, quick_capacity_check returns true, so
\* no edit ever ends in UNSAT(CAPACITY). Here for the declared state between
\* requests and for the one the last request attempted.
C28_CapacityCheckNeverFails ==
  /\ quick_capacity_check(build_demands(desired_owner).need)
  /\ quick_capacity_check(build_demands(last_op.attempted).need)
  /\ last_op.primary # "CAPACITY"
  /\ last_op.secondary # "CAPACITY"

\* A request was solved with N inputs on one egress block, all of one
\* ingress block: both counts of the check are at the capacity
C28_Witness ==
  /\ Solved
  /\ \E e \in Blocks : Cardinality(InputsTo(desired_owner, e)) = N
  /\ \E b \in Blocks : Cardinality(ActiveIn(desired_owner, b)) = N

\* ---------------------------------------------------------------------------
\* Two outcomes of a request agree: same success, same declared state, same
\* fabric
SameResult(a, b) ==
  /\ a.ret = b.ret
  /\ \A p \in Ports :
       /\ a.g.desired_owner[p] = b.g.desired_owner[p]
       /\ a.g.s3_port_owner[p] = b.g.s3_port_owner[p]
       /\ a.g.s3_port_spine[p] = b.g.s3_port_spine[p]
  /\ \A x \in Blocks \X Spines : a.g.s1_to_s2[x] = b.g.s1_to_s2[x]
  /\ \A x \in Spines \X Blocks : a.g.s2_to_s3[x] = b.g.s2_to_s3[x]

\* C29: history independence: whether an edit succeeds, and the fabric it
\* commits, depend only on the current declared state, the prior state, the
\* loaded locks and the strict flag; two runs that reach the same declared
\* state through different edit histories (one of them containing an
\* earlier edit that failed on a lock conflict) give the same result for
\* the same next edit. Here for the run before and the run after an edit
\* that was solved, failed and left the declared state as it was: every
\* next edit has the same result in both.
C29_HistoryIndependence ==
  [][ ( /\ last_op'.primary # "NONE" /\ ~last_op'.ret
        /\ desired_owner' = desired_owner ) =>
        \A input_id \in InputIds :
          /\ SameResult(apply_clear_request(Globals, input_id),
                        apply_clear_request(Globals', input_id))
          /\ \A targets \in TargetLists :
               SameResult(apply_route_request(Globals, input_id, targets),
                          apply_route_request(Globals', input_id, targets)) ]_vars

\* ---------------------------------------------------------------------------
\* The connected ports that had a spine in the previous state
PriorPorts == {p \in Ports : s3_port_owner[p] # 0 /\ prev_s3_port_spine[p] >= 0}

\* p is the last of the ports of its egress block that its owner holds and
\* that had a previous spine, or had the same previous spine as that port
KeepsDemandPrior(p) ==
  \A q \in PriorPorts :
    ( /\ s3_port_owner[q] = s3_port_owner[p]
      /\ get_block(q) = get_block(p)
      /\ \A r \in PriorPorts :
           (s3_port_owner[r] = s3_port_owner[p] /\ get_block(r) = get_block(p))
             => r <= q )
    => prev_s3_port_spine[q] = prev_s3_port_spine[p]

\* The last request was solved against a prior state at stability cost 0
SolvedAtZero == Solved /\ have_previous_state /\ last_stability_cost = 0

\* C30: demand-level and port-level stability agree at zero: after a
\* successful solve with a prior state loaded whose reported stability cost
\* is 0 (in particular every solve committed under strict_stability), no
\* connected output port has changed spine: every p with owner[p] # 0 and
\* prev[p] >= 0 has spine[p] = prev[p], and last_rerouted_outputs = 0.
C30_StabilityAgreesAtZero ==
  SolvedAtZero =>
    /\ \A p \in PriorPorts : s3_port_spine[p] = prev_s3_port_spine[p]
    /\ rerouted_outputs(s3_port_spine) = 0

\* C30 (amended): after such a solve, every connected port whose previous
\* spine is the one kept for its demand (the previous spine of the last
\* port of its egress block declared to its input) has spine[p] = prev[p];
\* the connected ports of the demand with another previous spine have
\* changed spine, and last_rerouted_outputs is their number.
C30_StabilityAgreesPerDemand ==
  SolvedAtZero =>
    /\ \A p \in PriorPorts :
         KeepsDemandPrior(p) <=> s3_port_spine[p] = prev_s3_port_spine[p]
    /\ rerouted_outputs(s3_port_spine)
         = Cardinality({p \in PriorPorts : ~KeepsDemandPrior(p)})

\* An input holds ports 1 and 2, whose previous spines differ, after a solve
\* of cost 0 under strict stability
C30_Witness ==
  /\ SolvedAtZero /\ strict_stability
  /\ s3_port_owner[1] # 0 /\ s3_port_owner[1] = s3_port_owner[2]
  /\ rerouted_outputs(s3_port_spine) = 1

====
